---------------------------- MODULE Spec2Model ----------------------------
(***************************************************************************)
(* Model of brokaw's article header parser                                 *)
(* (src/types/response/article/parse.rs).                                  *)
(*                                                                         *)
(* Byte slices (&[u8]) are sequences of integers 0..255.  A nom parser     *)
(* IResult<&[u8], O> is a record [kind, rest, out]: kind is "Ok",          *)
(* "Error" (nom's recoverable Err::Error) or "Failure" (Err::Failure);     *)
(* rest is the remaining input (for an error: the input the error is       *)
(* anchored at) and out the produced value.  A String is the sequence of   *)
(* its Unicode scalar values.                                              *)
(***************************************************************************)
EXTENDS Integers, Sequences, FiniteSets, TLC

VARIABLES b, rest, pc, n, acc, map, len, parsed, out

vars == <<b, rest, pc, n, acc, map, len, parsed, out>>

-----------------------------------------------------------------------------
(* Bytes the grammar names *)

TAB == 9
LF == 10
CR == 13
SP == 32
COLON == 58
REPLACEMENT == 65533

Min(x, y) == IF x <= y THEN x ELSE y

Drop(s, k) == SubSeq(s, k + 1, Len(s))
Take(s, k) == SubSeq(s, 1, k)

RECURSIVE Flatten(_)
Flatten(ss) == IF ss = <<>> THEN <<>> ELSE Head(ss) \o Flatten(Tail(ss))

SeqsUpTo(S, k) == UNION {[1..m -> S] : m \in 0..k}

-----------------------------------------------------------------------------
(* nom results *)

Ok(r, o) == [kind |-> "Ok", rest |-> r, out |-> o]
Error(i) == [kind |-> "Error", rest |-> i, out |-> <<>>]
Failure(i) == [kind |-> "Failure", rest |-> i, out |-> <<>>]

(* a `let` binding: the value is computed once and handed to what follows *)
Let(v, F(_)) == F(v)

(* sequencing inside tuple / terminated: the next parser runs on what the *)
(* one before left, the first failure is the result                       *)
and_then(r, F(_)) == IF r.kind # "Ok" THEN r ELSE F(r)

(* nom::branch::alt: the second parser is tried on Err::Error only *)
alt(r1, r2) == IF r1.kind = "Error" THEN r2 ELSE r1

(* nom::combinator::opt: Err::Error becomes None, nothing consumed *)
opt(r, i) == IF r.kind = "Error" THEN Ok(i, <<>>) ELSE r

(* nom::combinator::verify: an Ok whose output fails the test is Err::Error *)
verify(r, P(_), i) == IF r.kind = "Ok" /\ ~P(r.out) THEN Error(i) ELSE r

-----------------------------------------------------------------------------
(* Byte classifiers *)

is_a_notcolon(chr) == (chr >= 33 /\ chr <= 57) \/ (chr >= 59 /\ chr <= 126)

is_a_char(chr) == chr >= 33 /\ chr <= 126

is_ascii(chr) == chr <= 127

is_space(chr) == chr = SP \/ chr = TAB

(* core::str: UTF8_CHAR_WIDTH, the width a lead byte announces (0: no lead) *)
utf8_char_width(x) ==
    IF x <= 127 THEN 1
    ELSE IF x >= 194 /\ x <= 223 THEN 2
    ELSE IF x >= 224 /\ x <= 239 THEN 3
    ELSE IF x >= 240 /\ x <= 244 THEN 4
    ELSE 0

is_cont(x) == x >= 128 /\ x <= 191

(* core::str validation of the character starting s (s non-empty):          *)
(* [valid, len]: a valid character of len bytes, or an invalid sequence of  *)
(* len bytes (the lead byte and the continuation bytes accepted before the  *)
(* mismatch), the unit from_utf8_lossy replaces by one U+FFFD.              *)
utf8_chunk(s) ==
    LET first == s[1]
        w == utf8_char_width(first)
        has(k) == Len(s) >= k
        second_ok3 == has(2) /\
            \/ first = 224 /\ s[2] >= 160 /\ s[2] <= 191
            \/ first >= 225 /\ first <= 236 /\ is_cont(s[2])
            \/ first = 237 /\ s[2] >= 128 /\ s[2] <= 159
            \/ first >= 238 /\ first <= 239 /\ is_cont(s[2])
        second_ok4 == has(2) /\
            \/ first = 240 /\ s[2] >= 144 /\ s[2] <= 191
            \/ first >= 241 /\ first <= 243 /\ is_cont(s[2])
            \/ first = 244 /\ s[2] >= 128 /\ s[2] <= 143
    IN  IF w = 1 THEN [valid |-> TRUE, len |-> 1]
        ELSE IF w = 2 THEN
            IF has(2) /\ is_cont(s[2]) THEN [valid |-> TRUE, len |-> 2]
            ELSE [valid |-> FALSE, len |-> 1]
        ELSE IF w = 3 THEN
            IF ~second_ok3 THEN [valid |-> FALSE, len |-> 1]
            ELSE IF ~(has(3) /\ is_cont(s[3])) THEN [valid |-> FALSE, len |-> 2]
            ELSE [valid |-> TRUE, len |-> 3]
        ELSE IF w = 4 THEN
            IF ~second_ok4 THEN [valid |-> FALSE, len |-> 1]
            ELSE IF ~(has(3) /\ is_cont(s[3])) THEN [valid |-> FALSE, len |-> 2]
            ELSE IF ~(has(4) /\ is_cont(s[4])) THEN [valid |-> FALSE, len |-> 3]
            ELSE [valid |-> TRUE, len |-> 4]
        ELSE [valid |-> FALSE, len |-> 1]

(* from_utf8(b).is_ok() *)
RECURSIVE from_utf8(_)
from_utf8(s) ==
    IF s = <<>> THEN TRUE
    ELSE Let(utf8_chunk(s), LAMBDA c : c.valid /\ from_utf8(Drop(s, c.len)))

(* the scalar value of the valid character that is the c.len first bytes of s *)
decode_char(s, w) ==
    IF w = 1 THEN s[1]
    ELSE IF w = 2 THEN (s[1] - 192) * 64 + (s[2] - 128)
    ELSE IF w = 3 THEN (s[1] - 224) * 4096 + (s[2] - 128) * 64 + (s[3] - 128)
    ELSE (s[1] - 240) * 262144 + (s[2] - 128) * 4096 + (s[3] - 128) * 64 + (s[4] - 128)

(* String::from_utf8_lossy(b).to_string() *)
RECURSIVE from_utf8_lossy(_)
from_utf8_lossy(s) ==
    IF s = <<>> THEN <<>>
    ELSE Let(utf8_chunk(s), LAMBDA c :
            <<IF c.valid THEN decode_char(s, c.len) ELSE REPLACEMENT>>
                \o from_utf8_lossy(Drop(s, c.len)))

(* the ASCII test left out *)
is_utf8_non_ascii_any(s) == from_utf8(s)

(* the UTF-8 test left out *)
is_utf8_non_ascii_unchecked(s) == ~(\E i \in 1..Len(s) : is_ascii(s[i]))

is_utf8_non_ascii(s) == from_utf8(s) /\ ~(\E i \in 1..Len(s) : is_ascii(s[i]))

is_a_char_bytes(s) == IF Len(s) > 1 THEN FALSE ELSE is_a_char(s[1])

(* <[u8]>::is_ascii *)
slice_is_ascii(s) == \A k \in 1..Len(s) : is_ascii(s[k])

-----------------------------------------------------------------------------
(* Primitive extractors *)

(* nom::bytes::complete::take(count) *)
take(count, i) ==
    IF Len(i) < count THEN Error(i) ELSE Ok(Drop(i, count), Take(i, count))

take_ascii_byte(i) == verify(take(1, i), slice_is_ascii, i)

take_a_char(i) == verify(take_ascii_byte(i), is_a_char_bytes, i)

(* verify(take(k), is_utf8_non_ascii): one alternative of take_utf8_non_ascii *)
take_verified(k, i) == verify(take(k, i), is_utf8_non_ascii, i)

(* alt: the alternatives k, k+1, .. 4 in order, the first Ok wins *)
RECURSIVE alt_from(_, _)
alt_from(k, i) ==
    IF k < 4 THEN alt(take_verified(k, i), alt_from(k + 1, i))
    ELSE take_verified(k, i)

take_utf8_non_ascii(i) == alt_from(1, i)

(* only the A-CHAR alternative *)
take_p_char_ascii(i) == take_a_char(i)

(* the P-CHAR returned and not consumed *)
take_p_char_peek(i) ==
    Let(alt(take_a_char(i), take_utf8_non_ascii(i)), LAMBDA q :
        IF q.kind = "Ok" THEN Ok(i, q.out) ELSE q)

take_p_char(i) == alt(take_a_char(i), take_utf8_non_ascii(i))

(* nom::bytes::complete::take_while1(is_a_notcolon) *)
RECURSIVE notcolon_run(_)
notcolon_run(i) ==
    IF i # <<>> /\ is_a_notcolon(i[1]) THEN 1 + notcolon_run(Tail(i)) ELSE 0

take_header_name(i) ==
    Let(notcolon_run(i), LAMBDA k :
        IF k = 0 THEN Error(i) ELSE Ok(Drop(i, k), Take(i, k)))

(* the loop of fold_many1(take_p_char, 0, |acc, slice| acc + slice.len()) *)
RECURSIVE token_fold(_, _)
token_fold(input, a) ==
    Let(take_p_char(input), LAMBDA r :
        IF r.kind = "Error" THEN Ok(input, a)
        ELSE IF r.kind # "Ok" THEN r
        ELSE IF r.rest = input THEN Failure(input)
        ELSE token_fold(r.rest, a + Len(r.out)))

take_token(i) ==
    Let(take_p_char(i), LAMBDA r :
        IF r.kind = "Error" THEN Error(i)
        ELSE IF r.kind # "Ok" THEN r
        ELSE and_then(token_fold(r.rest, 0 + Len(r.out)), LAMBDA f :
                Ok(f.rest, Take(i, f.out))))

-----------------------------------------------------------------------------
(* nom::character::complete *)

RECURSIVE space_run(_)
space_run(i) == IF i # <<>> /\ is_space(i[1]) THEN 1 + space_run(Tail(i)) ELSE 0

space0(i) == Let(space_run(i), LAMBDA k : Ok(Drop(i, k), Take(i, k)))

space1(i) ==
    Let(space_run(i), LAMBDA k :
        IF k = 0 THEN Error(i) ELSE Ok(Drop(i, k), Take(i, k)))

crlf(i) ==
    IF Len(i) >= 2 /\ i[1] = CR /\ i[2] = LF
    THEN Ok(Drop(i, 2), Take(i, 2)) ELSE Error(i)

char(c, i) == IF i # <<>> /\ i[1] = c THEN Ok(Tail(i), <<c>>) ELSE Error(i)

-----------------------------------------------------------------------------
(* Header content and header *)

(* opt(crlf): what RFC 3977 asks for *)
opt_crlf(i) == opt(crlf(i), i)

(* opt(tuple((space0, crlf))) *)
opt_fold(i) ==
    opt(and_then(space0(i), LAMBDA w :
        and_then(crlf(w.rest), LAMBDA c :
        Ok(c.rest, w.out \o c.out))), i)

(* tuple((opt(tuple((space0, crlf))), space1, take_token)) *)
continuation(i) ==
    and_then(opt_fold(i), LAMBDA f :
    and_then(space1(f.rest), LAMBDA w :
    and_then(take_token(w.rest), LAMBDA t :
    Ok(t.rest, f.out \o w.out \o t.out))))

(* many0(continuation) *)
RECURSIVE many0_continuation(_)
many0_continuation(i) ==
    Let(continuation(i), LAMBDA r :
        IF r.kind = "Error" THEN Ok(i, <<>>)
        ELSE IF r.kind # "Ok" THEN r
        ELSE IF r.rest = i THEN Error(i)
        ELSE many0_continuation(r.rest))

(* the trailing space0 forgotten *)
take_header_content_no_trailing(i) ==
    and_then(space0(i), LAMBDA w :
    and_then(take_token(w.rest), LAMBDA t :
    and_then(many0_continuation(t.rest), LAMBDA m :
    Ok(m.rest, Take(i, Len(i) - Len(m.rest))))))

(* the content span cut before the trailing whitespace *)
take_header_content_trimmed(i) ==
    and_then(space0(i), LAMBDA w :
    and_then(take_token(w.rest), LAMBDA t :
    and_then(many0_continuation(t.rest), LAMBDA m :
    and_then(space0(m.rest), LAMBDA trailing :
    Ok(trailing.rest, Take(i, Len(i) - Len(m.rest)))))))

take_header_content(i) ==
    and_then(space0(i), LAMBDA w :
    and_then(take_token(w.rest), LAMBDA t :
    and_then(many0_continuation(t.rest), LAMBDA m :
    and_then(space0(m.rest), LAMBDA trailing :
    Let(Len(i) - Len(trailing.rest), LAMBDA bytes_read :
    Ok(trailing.rest, Take(i, bytes_read)))))))

(* opt(take_header_content), None read as unwrap_or_default reads it *)
opt_header_content(i) == opt(take_header_content(i), i)

(* char(' ') left out of the tuple *)
take_header_no_space(i) ==
    and_then(take_header_name(i), LAMBDA name :
    and_then(char(COLON, name.rest), LAMBDA colon :
    and_then(opt_header_content(colon.rest), LAMBDA content :
    and_then(crlf(content.rest), LAMBDA eol :
    Ok(eol.rest, [name |-> name.out, content |-> content.out])))))

take_header(i) ==
    and_then(take_header_name(i), LAMBDA name :
    and_then(char(COLON, name.rest), LAMBDA colon :
    and_then(char(SP, colon.rest), LAMBDA space :
    and_then(opt_header_content(space.rest), LAMBDA content :
    and_then(crlf(content.rest), LAMBDA eol :
    Ok(eol.rest, [name |-> name.out, content |-> content.out]))))))

-----------------------------------------------------------------------------
(* The closure take_headers folds the headers with *)

(* map.entry(name).or_insert(Header { name, content: vec![] }) *)
or_insert(m, nm) ==
    IF nm \in DOMAIN m THEN m ELSE (nm :> [name |-> nm, content |-> <<>>]) @@ m

(* map.insert(name, Header { .. }) in place of entry(..).or_insert(..) *)
fold_headers_insert(m, l, name, content) ==
    Let(from_utf8_lossy(name), LAMBDA nm :
    Let(from_utf8_lossy(content), LAMBDA ct :
    Let((nm :> [name |-> nm, content |-> <<>>]) @@ m, LAMBDA m1 :
    [map |-> [m1 EXCEPT ![nm].content = Append(@, ct)], len |-> l + 1])))

(* len counted per entry created, not per line *)
fold_headers_per_name(m, l, name, content) ==
    Let(from_utf8_lossy(name), LAMBDA nm :
    Let(from_utf8_lossy(content), LAMBDA ct :
    Let(or_insert(m, nm), LAMBDA m1 :
    [map |-> [m1 EXCEPT ![nm].content = Append(@, ct)],
     len |-> IF nm \in DOMAIN m THEN l ELSE l + 1])))

fold_headers(m, l, name, content) ==
    Let(from_utf8_lossy(name), LAMBDA nm :
    Let(from_utf8_lossy(content), LAMBDA ct :
    Let(or_insert(m, nm), LAMBDA m1 :
    [map |-> [m1 EXCEPT ![nm].content = Append(@, ct)], len |-> l + 1])))

(* fold_many1(take_header, (HashMap::new(), 0), ..), its loop *)
RECURSIVE headers_fold(_, _, _)
headers_fold(input, m, l) ==
    Let(take_header(input), LAMBDA r :
        IF r.kind = "Error" THEN Ok(input, [inner |-> m, len |-> l])
        ELSE IF r.kind # "Ok" THEN r
        ELSE IF r.rest = input THEN Failure(input)
        ELSE Let(fold_headers(m, l, r.out.name, r.out.content), LAMBDA a :
                headers_fold(r.rest, a.map, a.len)))

take_headers(i) ==
    Let(take_header(i), LAMBDA r :
        IF r.kind = "Error" THEN Error(i)
        ELSE IF r.kind # "Ok" THEN r
        ELSE Let(fold_headers(<<>>, 0, r.out.name, r.out.content), LAMBDA a :
             and_then(headers_fold(r.rest, a.map, a.len), LAMBDA f :
             and_then(crlf(f.rest), LAMBDA eol :
             Ok(eol.rest, f.out)))))

-----------------------------------------------------------------------------
(* Unicode, as the standard defines it (used to state the properties) *)

IsScalarValue(cp) == cp >= 0 /\ cp <= 1114111 /\ ~(cp >= 55296 /\ cp <= 57343)

(* RFC 3629 section 3: the UTF-8 encoding of a scalar value *)
Utf8Encode(cp) ==
    IF cp < 128 THEN <<cp>>
    ELSE IF cp < 2048 THEN <<192 + (cp \div 64), 128 + (cp % 64)>>
    ELSE IF cp < 65536 THEN
        <<224 + (cp \div 4096), 128 + ((cp \div 64) % 64), 128 + (cp % 64)>>
    ELSE <<240 + (cp \div 262144), 128 + ((cp \div 4096) % 64),
           128 + ((cp \div 64) % 64), 128 + (cp % 64)>>

(* the number a byte string of 1..4 bytes would encode, read positionally *)
Positional(u) ==
    IF Len(u) = 1 THEN u[1]
    ELSE IF Len(u) = 2 THEN (u[1] - 192) * 64 + (u[2] - 128)
    ELSE IF Len(u) = 3 THEN (u[1] - 224) * 4096 + (u[2] - 128) * 64 + (u[3] - 128)
    ELSE (u[1] - 240) * 262144 + (u[2] - 128) * 4096 + (u[3] - 128) * 64 + (u[4] - 128)

(* u is the UTF-8 encoding of exactly one scalar value *)
IsOneChar(u) ==
    /\ Len(u) >= 1 /\ Len(u) <= 4
    /\ IsScalarValue(Positional(u))
    /\ Utf8Encode(Positional(u)) = u

(* u is the encoding of exactly one non-ASCII scalar value (UTF8-non-ascii) *)
IsNonAsciiChar(u) == IsOneChar(u) /\ Positional(u) >= 128

(* u is one P-CHAR: an A-CHAR (%x21-7E) or a UTF8-non-ascii *)
IsPChar(u) == (Len(u) = 1 /\ u[1] >= 33 /\ u[1] <= 126) \/ IsNonAsciiChar(u)

(* u is well-formed UTF-8: a run of encoded scalar values *)
RECURSIVE IsUtf8Text(_)
IsUtf8Text(u) ==
    \/ u = <<>>
    \/ \E k \in 1..Min(4, Len(u)) : IsOneChar(Take(u, k)) /\ IsUtf8Text(Drop(u, k))

(* the scalar values well-formed UTF-8 encodes *)
RECURSIVE Utf8Text(_)
Utf8Text(u) ==
    IF u = <<>> THEN <<>>
    ELSE LET k == CHOOSE k \in 1..Min(4, Len(u)) : IsOneChar(Take(u, k))
         IN  <<Positional(Take(u, k))>> \o Utf8Text(Drop(u, k))

(* the UTF-8 encoding of a text *)
RECURSIVE EncodeText(_)
EncodeText(t) ==
    IF t = <<>> THEN <<>> ELSE Utf8Encode(Head(t)) \o EncodeText(Tail(t))

IsSuffix(s, t) == Len(s) <= Len(t) /\ s = Drop(t, Len(t) - Len(s))

(* a whitespace or control byte *)
IsWsOrCtl(x) == x <= 32 \/ x = 127


(* s begins with one P-CHAR *)
StartsWithPChar(s) == \E k \in 1..Min(4, Len(s)) : IsPChar(Take(s, k))

(* u is a (possibly empty) run of P-CHAR units *)
RECURSIVE IsPCharRun(_)
IsPCharRun(u) ==
    \/ u = <<>>
    \/ \E k \in 1..Min(4, Len(u)) : IsPChar(Take(u, k)) /\ IsPCharRun(Drop(u, k))

(* the length of the longest prefix of s that is a run of P-CHAR units *)
MaxPCharRun(s) ==
    CHOOSE k \in 0..Len(s) :
        /\ IsPCharRun(Take(s, k))
        /\ \A j \in (k + 1)..Len(s) : ~IsPCharRun(Take(s, j))

-----------------------------------------------------------------------------
(* RFC 3977 Appendix A.1, read as a grammar: the positions of s (counts of   *)
(* bytes from its start) at which a match that starts at position i can end. *)
(*     header         = header-name ":" SP [header-content] CRLF             *)
(*     header-content = [WS] token *( [CRLF] WS token )                      *)
(* foldWs adds: WS may precede a folding CRLF.  trailWs adds: WS may follow  *)
(* the last token.                                                           *)

CrlfEnds(s, i) ==
    IF i + 2 <= Len(s) /\ s[i + 1] = CR /\ s[i + 2] = LF THEN {i + 2} ELSE {}

LitEnds(s, i, c) == IF i + 1 <= Len(s) /\ s[i + 1] = c THEN {i + 1} ELSE {}

(* WS = 1*( SP / TAB ) *)
RECURSIVE WsEnds(_, _)
WsEnds(s, i) ==
    IF i + 1 <= Len(s) /\ (s[i + 1] = SP \/ s[i + 1] = TAB)
    THEN {i + 1} \cup WsEnds(s, i + 1) ELSE {}

(* header-name = 1*A-NOTCOLON, A-NOTCOLON = %x21-39 / %x3B-7E *)
RECURSIVE NameEnds(_, _)
NameEnds(s, i) ==
    IF i + 1 <= Len(s) /\ s[i + 1] \in (33..57) \cup (59..126)
    THEN {i + 1} \cup NameEnds(s, i + 1) ELSE {}

(* P-CHAR = A-CHAR / UTF8-non-ascii *)
PCharEnds(s, i) ==
    {j \in (i + 1)..Min(i + 4, Len(s)) : IsPChar(SubSeq(s, i + 1, j))}

(* *P-CHAR from the positions new; seen are those already followed *)
RECURSIVE PCharsEnds(_, _, _)
PCharsEnds(s, seen, new) ==
    IF new = {} THEN seen
    ELSE PCharsEnds(s, seen \cup new,
                    UNION {PCharEnds(s, i) : i \in new} \ (seen \cup new))

(* token = 1*P-CHAR *)
TokenEnds(s, i) == PCharsEnds(s, {}, PCharEnds(s, i))

(* [CRLF] WS token *)
ContinuationEnds(s, i, foldWs) ==
    LET beforeFold == {i} \cup (IF foldWs THEN WsEnds(s, i) ELSE {})
        afterFold == {i} \cup UNION {CrlfEnds(s, w) : w \in beforeFold}
        afterWs == UNION {WsEnds(s, j) : j \in afterFold}
    IN  UNION {TokenEnds(s, k) : k \in afterWs}

(* *( [CRLF] WS token ) from the positions new *)
RECURSIVE ContinuationsEnds(_, _, _, _)
ContinuationsEnds(s, seen, new, foldWs) ==
    IF new = {} THEN seen
    ELSE ContinuationsEnds(s, seen \cup new,
            UNION {ContinuationEnds(s, i, foldWs) : i \in new} \ (seen \cup new),
            foldWs)

ContentEnds(s, i, foldWs, trailWs) ==
    LET first == UNION {TokenEnds(s, j) : j \in {i} \cup WsEnds(s, i)}
        last == ContinuationsEnds(s, {}, first, foldWs)
    IN  last \cup (IF trailWs THEN UNION {WsEnds(s, j) : j \in last} ELSE {})

HeaderEnds(s, i, foldWs, trailWs) ==
    LET afterName == NameEnds(s, i)
        afterColon == UNION {LitEnds(s, j, COLON) : j \in afterName}
        afterSp == UNION {LitEnds(s, j, SP) : j \in afterColon}
        afterContent ==
            afterSp \cup UNION {ContentEnds(s, j, foldWs, trailWs) : j \in afterSp}
    IN  UNION {CrlfEnds(s, j) : j \in afterContent}

(* s, whole, is a header of the grammar *)
InHeaderLanguage(s, foldWs, trailWs) == Len(s) \in HeaderEnds(s, 0, foldWs, trailWs)

(* *header from the positions new, under both relaxations *)
RECURSIVE HeadersEnds(_, _, _)
HeadersEnds(s, seen, new) ==
    IF new = {} THEN seen
    ELSE HeadersEnds(s, seen \cup new,
            UNION {HeaderEnds(s, i, TRUE, TRUE) : i \in new} \ (seen \cup new))

(* the prefixes of s that are a header block: 1*header CRLF *)
BlockEnds(s) ==
    UNION {CrlfEnds(s, j) : j \in HeadersEnds(s, {}, HeaderEnds(s, 0, TRUE, TRUE))}

(* where the first CRLF CRLF of s ends (0: there is none) *)
FirstBlankLineEnd(s) ==
    LET E == {j \in 4..Len(s) :
                s[j - 3] = CR /\ s[j - 2] = LF /\ s[j - 1] = CR /\ s[j] = LF}
    IN  IF E = {} THEN 0 ELSE CHOOSE j \in E : \A k \in E : j <= k

-----------------------------------------------------------------------------
(* take_utf8_non_ascii, one alternative of its alt per step *)

MaxUtf8Len == 4

Utf8Bytes == {65, 128, 162, 193, 194, 224, 237, 240, 244}

InitUtf8 ==
    /\ b \in SeqsUpTo(Utf8Bytes, MaxUtf8Len)
    /\ rest = b
    /\ pc = "alt"
    /\ n = 1
    /\ acc = 0
    /\ map = <<>>
    /\ len = 0
    /\ parsed = <<>>
    /\ out = <<>>

AltTry ==
    /\ pc = "alt"
    /\ LET r == take_verified(n, b) IN
        /\ pc' = IF r.kind = "Error" /\ n < 4 THEN "alt" ELSE r.kind
        /\ n' = IF r.kind = "Error" /\ n < 4 THEN n + 1 ELSE n
        /\ rest' = IF r.kind = "Ok" THEN r.rest ELSE rest
        /\ out' = r.out
    /\ UNCHANGED <<b, acc, map, len, parsed>>

NextUtf8 == AltTry

SpecUtf8 == InitUtf8 /\ [][NextUtf8]_vars

(* The step-wise alt computes take_utf8_non_ascii *)
Utf8StepsAgree ==
    pc \in {"Ok", "Error"} =>
        LET r == take_utf8_non_ascii(b) IN
        r.kind = pc /\ (pc = "Ok" => r.rest = rest /\ r.out = out)

(* C9: take_utf8_non_ascii tries the prefix lengths 1, 2, 3, 4 in order and   *)
(* takes the first that is valid UTF-8 without an ASCII byte.  It never       *)
(* succeeds with length 1; when it succeeds the consumed span is the 2-4 byte *)
(* encoding of exactly one non-ASCII scalar value, the first character of the *)
(* input, and no shorter prefix is one; it fails iff the input does not start *)
(* with a complete valid non-ASCII UTF-8 sequence.                            *)
C9_OneNonAsciiScalar ==
    /\ pc = "alt" => \A k \in 1..Min(n - 1, Len(b)) : ~IsNonAsciiChar(Take(b, k))
    /\ pc = "Ok" =>
        /\ n # 1 /\ n \in 2..4
        /\ Len(out) = n
        /\ b = out \o rest
        /\ IsNonAsciiChar(out)
        /\ \A k \in 1..(n - 1) : ~IsNonAsciiChar(Take(b, k))
    /\ pc \in {"Ok", "Error"} =>
        (pc = "Error" <=> ~(\E k \in 1..Len(b) : IsNonAsciiChar(Take(b, k))))

C9_Witness == pc = "Ok" /\ n = 3 /\ rest # <<>> /\ rest[1] >= 128

-----------------------------------------------------------------------------
(* take_token, one iteration of its fold_many1 per step *)

MaxTokenLen == 4

TokenBytes == {13, 32, 65, 127, 162, 194, 224, 255}

InitToken ==
    /\ b \in SeqsUpTo(TokenBytes, MaxTokenLen)
    /\ rest = b
    /\ pc = "first"
    /\ n = 0
    /\ acc = 0
    /\ map = <<>>
    /\ len = 0
    /\ parsed = <<>>
    /\ out = <<>>

(* fold_many1's first application of take_p_char *)
TokenFirst ==
    /\ pc = "first"
    /\ LET r == take_p_char(rest) IN
        /\ pc' = IF r.kind = "Ok" THEN "loop" ELSE r.kind
        /\ rest' = IF r.kind = "Ok" THEN r.rest ELSE rest
        /\ acc' = IF r.kind = "Ok" THEN 0 + Len(r.out) ELSE acc
    /\ UNCHANGED <<b, n, map, len, parsed, out>>

(* one more P-CHAR taken *)
TokenMore ==
    /\ pc = "loop"
    /\ LET r == take_p_char(rest) IN
        /\ r.kind # "Error"
        /\ pc' = IF r.kind # "Ok" THEN r.kind
                 ELSE IF r.rest = rest THEN "Failure" ELSE "loop"
        /\ rest' = IF r.kind = "Ok" THEN r.rest ELSE rest
        /\ acc' = IF r.kind = "Ok" /\ r.rest # rest THEN acc + Len(r.out) ELSE acc
    /\ UNCHANGED <<b, n, map, len, parsed, out>>

(* take_p_char fails: the fold ends and the token is sliced off the input *)
TokenEnd ==
    /\ pc = "loop"
    /\ take_p_char(rest).kind = "Error"
    /\ pc' = "Ok"
    /\ out' = Take(b, acc)
    /\ UNCHANGED <<b, rest, n, acc, map, len, parsed>>

NextToken == TokenFirst \/ TokenMore \/ TokenEnd

SpecToken == InitToken /\ [][NextToken]_vars

(* The step-wise fold computes take_token *)
TokenStepsAgree ==
    pc \in {"Ok", "Error", "Failure"} =>
        LET r == take_token(b) IN
        r.kind = pc /\ (pc = "Ok" => r.rest = rest /\ r.out = out)


(* C8 as stated: take_token returns the maximal run of P-CHAR units, with     *)
(* input == token ++ remainder, the remainder being empty or beginning with a *)
(* whitespace or control byte; it fails iff no P-CHAR starts the input.       *)
C8_StopsAtWsOrCtl ==
    /\ pc = "Ok" =>
        /\ b = out \o rest
        /\ Len(out) >= 1
        /\ Len(out) = MaxPCharRun(b)
        /\ (rest = <<>> \/ IsWsOrCtl(rest[1]))
    /\ pc \in {"Ok", "Error", "Failure"} => (pc # "Ok" <=> ~StartsWithPChar(b))

(* C8, amended: take_token returns the maximal run of P-CHAR units, with      *)
(* input == token ++ remainder; the remainder is empty or begins with bytes   *)
(* that are not a P-CHAR: a whitespace or control byte, or a non-ASCII byte   *)
(* that does not start a complete valid UTF-8 sequence.  It fails (with a     *)
(* recoverable error) iff no P-CHAR starts the input.                         *)
C8_GreedyToken ==
    /\ pc = "loop" => acc >= 1 /\ IsPCharRun(Take(b, acc)) /\ rest = Drop(b, acc)
    /\ pc = "Ok" =>
        /\ b = out \o rest
        /\ Len(out) >= 1
        /\ Len(out) = MaxPCharRun(b)
        /\ ~StartsWithPChar(rest)
        /\ (rest = <<>> \/ IsWsOrCtl(rest[1]) \/ rest[1] >= 128)
    /\ pc # "Failure"
    /\ pc \in {"Ok", "Error"} => (pc = "Error" <=> ~StartsWithPChar(b))

C8_Witness ==
    pc = "Ok" /\ Len(out) = 3 /\ out[1] >= 128 /\ rest # <<>> /\ rest[1] = 255

-----------------------------------------------------------------------------
(* take_header on a buffer of its own *)

MaxTailPieces == 6

HeaderHeads == {<<78, 58, 32>>, <<78, 58>>}

TailPieces == {<<116>>, <<SP>>, <<TAB>>, <<CR, LF>>, <<255>>}

InitHeader ==
    /\ \E h \in HeaderHeads, t \in SeqsUpTo(TailPieces, MaxTailPieces) :
            b = h \o Flatten(t)
    /\ rest = b
    /\ pc = "header"
    /\ n = 0
    /\ acc = 0
    /\ map = <<>>
    /\ len = 0
    /\ parsed = <<>>
    /\ out = <<>>

TakeHeader ==
    /\ pc = "header"
    /\ LET r == take_header(b) IN
        /\ pc' = r.kind
        /\ rest' = r.rest
        /\ out' = r.out
    /\ UNCHANGED <<b, n, acc, map, len, parsed>>

NextHeader == TakeHeader

SpecHeader == InitHeader /\ [][NextHeader]_vars

(* take_header took the whole buffer *)
Accepted == pc = "Ok" /\ rest = <<>>

(* C3 as stated: take_header accepts exactly the RFC 3977 header grammar      *)
(* extended by one relaxation, whitespace before a folding CRLF.              *)
C3_OneRelaxation ==
    pc # "header" => (Accepted <=> InHeaderLanguage(b, TRUE, FALSE))

(* C3, amended: take_header accepts exactly the RFC 3977 header grammar       *)
(* extended by two relaxations: horizontal whitespace is allowed immediately  *)
(* before a folding CRLF, and after the last token before the header's        *)
(* terminating CRLF.  No string of the RFC grammar is rejected.               *)
C3_TwoRelaxations ==
    pc # "header" =>
        /\ Accepted <=> InHeaderLanguage(b, TRUE, TRUE)
        /\ InHeaderLanguage(b, FALSE, FALSE) => Accepted
        /\ pc # "Failure"

C3_Witness ==
    /\ Accepted
    /\ ~InHeaderLanguage(b, TRUE, FALSE)
    /\ \E k \in 1..(Len(out.content) - 2) :
          out.content[k] = CR /\ out.content[k + 1] = LF /\ out.content[k + 2] = TAB

-----------------------------------------------------------------------------
(* take_headers, one header per step.  parsed records the (name, content)     *)
(* byte spans take_header returned, in order.                                 *)

MaxLines == 4

(* "A: <U+00A2>", "A: y \r\n z " (folded), "a: " (no content), "A:x" (no      *)
(* space), "A: <0xFF>" (not UTF-8), each with its CRLF; a blank line; body    *)
(* text                                                                       *)
BlockLines ==
    { <<65, 58, 32, 194, 162, 13, 10>>,
      <<65, 58, 32, 121, 32, 13, 10, 32, 122, 32, 13, 10>>,
      <<97, 58, 32, 13, 10>>,
      <<65, 58, 120, 13, 10>>,
      <<65, 58, 32, 255, 13, 10>>,
      <<13, 10>>,
      <<73, 110>> }

Init ==
    /\ \E ls \in SeqsUpTo(BlockLines, MaxLines) : b = Flatten(ls)
    /\ rest = b
    /\ pc = "first"
    /\ n = 0
    /\ acc = 0
    /\ map = <<>>
    /\ len = 0
    /\ parsed = <<>>
    /\ out = <<>>

(* fold_many1's first application of take_header *)
FirstHeader ==
    /\ pc = "first"
    /\ LET r == take_header(rest) IN
       IF r.kind = "Ok"
       THEN LET a == fold_headers(map, len, r.out.name, r.out.content) IN
            /\ pc' = "loop"
            /\ rest' = r.rest
            /\ map' = a.map
            /\ len' = a.len
            /\ parsed' = Append(parsed, r.out)
       ELSE /\ pc' = r.kind
            /\ UNCHANGED <<rest, map, len, parsed>>
    /\ UNCHANGED <<b, n, acc, out>>

(* one more header folded in *)
MoreHeader ==
    /\ pc = "loop"
    /\ LET r == take_header(rest) IN
        /\ r.kind # "Error"
        /\ IF r.kind = "Ok" /\ r.rest # rest
           THEN LET a == fold_headers(map, len, r.out.name, r.out.content) IN
                /\ pc' = "loop"
                /\ rest' = r.rest
                /\ map' = a.map
                /\ len' = a.len
                /\ parsed' = Append(parsed, r.out)
           ELSE /\ pc' = "Failure"
                /\ map' = <<>>
                /\ len' = 0
                /\ UNCHANGED <<rest, parsed>>
    /\ UNCHANGED <<b, n, acc, out>>

(* take_header fails: the fold is over *)
FoldEnd ==
    /\ pc = "loop"
    /\ take_header(rest).kind = "Error"
    /\ pc' = "crlf"
    /\ UNCHANGED <<b, rest, n, acc, map, len, parsed, out>>

(* terminated(.., crlf): the blank line, then Headers { inner, len } *)
BlankLine ==
    /\ pc = "crlf"
    /\ LET r == crlf(rest) IN
       IF r.kind = "Ok"
       THEN /\ pc' = "Ok"
            /\ rest' = r.rest
            /\ out' = [inner |-> map, len |-> len]
            /\ UNCHANGED <<map, len>>
       ELSE /\ pc' = r.kind
            /\ map' = <<>>
            /\ len' = 0
            /\ UNCHANGED <<rest, out>>
    /\ UNCHANGED <<b, n, acc, parsed>>

Next == FirstHeader \/ MoreHeader \/ FoldEnd \/ BlankLine

Spec == Init /\ [][Next]_vars

Done == pc \in {"Ok", "Error", "Failure"}

(* The step-wise fold computes take_headers *)
HeadersStepsAgree ==
    Done =>
        LET r == take_headers(b) IN
        r.kind = pc /\ (pc = "Ok" => r.rest = rest /\ r.out = out)

(* a header line as it stands in the input *)
LineBytes(p) == p.name \o <<COLON, SP>> \o p.content \o <<CR, LF>>

(* the parsed lines carrying the name nm *)
LinesNamed(nm) == SelectSeq(parsed, LAMBDA p : Utf8Text(p.name) = nm)

RECURSIVE SumContent(_, _)
SumContent(m, S) ==
    IF S = {} THEN 0
    ELSE LET k == CHOOSE k \in S : TRUE
         IN  Len(m[k].content) + SumContent(m, S \ {k})

(* where the header lines of s start: the start of s and after each CRLF      *)
(* that no whitespace follows (a continuation line), up to the blank line     *)
HeaderLineStarts(s) ==
    LET fb == FirstBlankLineEnd(s)
        lim == IF fb = 0 THEN Len(s) ELSE fb - 2
    IN  {p \in 0..(lim - 1) :
            /\ p = 0 \/ (p >= 2 /\ s[p - 1] = CR /\ s[p] = LF)
            /\ s[p + 1] # SP /\ s[p + 1] # TAB}

(* the line at p has no ": " after its header name *)
LacksSeparator(s, p) ==
    LET e == CHOOSE e \in NameEnds(s, p) \cup {p} :
                \A j \in NameEnds(s, p) : j <= e
    IN  ~(e + 2 <= Len(s) /\ s[e + 1] = COLON /\ s[e + 2] = SP)

(* s starts with a line name ": " content CRLF whose content, made of         *)
(* printable ASCII and non-ASCII bytes only, is not well-formed UTF-8         *)
BadUtf8Line(s) ==
    \E e \in NameEnds(s, 0) : \E c \in (e + 3)..(Len(s) - 2) :
        /\ s[e + 1] = COLON /\ s[e + 2] = SP
        /\ s[c + 1] = CR /\ s[c + 2] = LF
        /\ \A k \in (e + 3)..c : (s[k] >= 33 /\ s[k] <= 126) \/ s[k] >= 128
        /\ ~IsUtf8Text(SubSeq(s, e + 3, c))

(* C1: on a buffer that starts with a well-formed header block (1*header      *)
(* CRLF) take_headers succeeds, consumes exactly that block, which ends with  *)
(* the first CRLF CRLF of the input, and returns everything after it.         *)
C1_ConsumesThroughBlankLine ==
    Done =>
        \A k \in BlockEnds(b) :
            /\ pc = "Ok"
            /\ b = Take(b, k) \o rest
            /\ rest = Drop(b, k)
            /\ k = FirstBlankLineEnd(b)

C1_Witness ==
    pc = "Ok" /\ Len(parsed) >= 2 /\ rest # <<>> /\ BlockEnds(b) # {}

(* C2: take_headers is all-or-nothing: it succeeds only on a buffer that      *)
(* starts with 1*header CRLF, every failure carries no Headers value, and a   *)
(* line before the blank line without ": " after its name fails the block     *)
(* even after valid headers.                                                  *)
C2_AllOrNothing ==
    Done =>
        /\ pc = "Ok" <=> BlockEnds(b) # {}
        /\ pc # "Ok" => out = <<>> /\ map = <<>> /\ len = 0
        /\ (\E p \in HeaderLineStarts(b) : LacksSeparator(b, p)) => pc # "Ok"

C2_Witness ==
    /\ pc = "Error"
    /\ Len(parsed) >= 1
    /\ \E p \in HeaderLineStarts(b) : p > 0 /\ LacksSeparator(b, p)
    /\ FirstBlankLineEnd(b) > 0

(* C5: after take_headers succeeds on n header lines the result has one entry *)
(* per distinct (case-sensitive) name, whose content list is the contents of  *)
(* the lines with that name, in input order.                                  *)
C5_OneEntryPerName ==
    pc = "Ok" =>
        /\ b = Flatten([i \in 1..Len(parsed) |-> LineBytes(parsed[i])])
                \o <<CR, LF>> \o rest
        /\ DOMAIN out.inner = {Utf8Text(parsed[i].name) : i \in 1..Len(parsed)}
        /\ \A nm \in DOMAIN out.inner :
            /\ out.inner[nm].name = nm
            /\ Len(out.inner[nm].content) = Len(LinesNamed(nm))
            /\ \A i \in 1..Len(LinesNamed(nm)) :
                out.inner[nm].content[i] = Utf8Text(LinesNamed(nm)[i].content)

C5_Witness ==
    /\ pc = "Ok"
    /\ Cardinality(DOMAIN out.inner) >= 2
    /\ \E nm \in DOMAIN out.inner :
        /\ Len(out.inner[nm].content) = 2
        /\ out.inner[nm].content[1] # out.inner[nm].content[2]

(* C6: at every step of the accumulation and in the returned Headers, len is  *)
(* the sum of the content-list lengths (the number of lines consumed), and    *)
(* every entry has at least one content.                                      *)
C6_LenIsSumOfContents ==
    /\ len = SumContent(map, DOMAIN map)
    /\ \A nm \in DOMAIN map : Len(map[nm].content) >= 1
    /\ pc \in {"first", "loop", "crlf", "Ok"} => len = Len(parsed)
    /\ pc = "Ok" =>
        /\ out.len = SumContent(out.inner, DOMAIN out.inner)
        /\ out.len = Len(parsed)
        /\ \A nm \in DOMAIN out.inner : Len(out.inner[nm].content) >= 1

C6_Witness == pc = "Ok" /\ out.len = 3 /\ Cardinality(DOMAIN out.inner) = 2

(* C7 as stated: a header whose content holds an invalid UTF-8 sequence does  *)
(* not fail the parse: the pair is extracted and stored, U+FFFD standing for  *)
(* the invalid sequence.                                                      *)
C7_InvalidUtf8Stored ==
    (pc # "first" /\ BadUtf8Line(b)) =>
        /\ pc # "Error"
        /\ Len(parsed) >= 1
        /\ \E nm \in DOMAIN map : \E i \in 1..Len(map[nm].content) :
              \E k \in 1..Len(map[nm].content[i]) :
                  map[nm].content[i][k] = REPLACEMENT

(* C7, amended: a header whose name or content bytes hold an invalid UTF-8    *)
(* sequence makes take_headers fail: what it consumes is well-formed UTF-8,   *)
(* so every stored name and content is the exact decoding of its bytes and    *)
(* nothing is substituted.                                                    *)
C7_OnlyValidUtf8Stored ==
    /\ (pc # "first" /\ BadUtf8Line(b)) => pc = "Error" /\ parsed = <<>>
    /\ pc = "Ok" => \A p \in HeaderLineStarts(b) : ~BadUtf8Line(Drop(b, p))
    /\ IsUtf8Text(Take(b, Len(b) - Len(rest)))
    /\ \A nm \in DOMAIN map :
        /\ \E i \in 1..Len(parsed) : EncodeText(nm) = parsed[i].name
        /\ \A j \in 1..Len(map[nm].content) :
            \E i \in 1..Len(parsed) :
                EncodeText(map[nm].content[j]) = parsed[i].content

C7_Witness == pc = "Error" /\ Len(parsed) >= 1 /\ BadUtf8Line(rest)

-----------------------------------------------------------------------------
(* a successful application r of a loop body to s leaves a proper suffix *)
Shrinks(r, s) == r.kind = "Ok" => Len(r.rest) < Len(s) /\ IsSuffix(r.rest, s)

(* the bodies of the three repetitions, applied anywhere in what remains *)
LoopBodiesConsume ==
    \A k \in 0..Len(rest) :
        LET s == Drop(rest, k) IN
        /\ Shrinks(take_p_char(s), s)
        /\ Shrinks(continuation(s), s)
        /\ Shrinks(take_header(s), s)

(* how far the parse is from its end: what remains, then the stage *)
Measure ==
    4 * Len(rest) + (IF pc = "first" THEN 3 ELSE IF pc = "loop" THEN 2
                     ELSE IF pc = "crlf" THEN 1 ELSE 0)

(* C10: take_headers terminates on every buffer with success or failure:      *)
(* applied to whatever remains it returns Ok or Error with a suffix of it,    *)
(* every step of the parse brings it nearer its end, each iteration of its    *)
(* repetitions (P-CHAR units, continuation segments, headers) consumes at     *)
(* least one byte wherever in the buffer it is applied, so that nom's         *)
(* no-progress guard never trips and the remaining length strictly decreases  *)
(* from header to header, and the remainder is always a suffix of the input.  *)
C10_Terminates ==
    /\ [](LET r == take_headers(rest) IN
            r.kind \in {"Ok", "Error"} /\ IsSuffix(r.rest, rest))
    /\ [][Measure' < Measure]_vars
    /\ [](IsSuffix(rest, b) /\ pc # "Failure")
    /\ [](pc = "first" => LoopBodiesConsume)
    /\ [][(pc' = "loop" => Len(rest') < Len(rest)) /\ Len(rest') <= Len(rest)]_vars

C10_Witness ==
    /\ pc = "Ok"
    /\ Len(parsed) = 2
    /\ rest # <<>>
    /\ \E i \in 1..2 : \E k \in 1..(Len(parsed[i].content) - 1) :
          parsed[i].content[k] = CR /\ parsed[i].content[k + 1] = LF

=============================================================================
